---------------------------- MODULE Spec2Model ----------------------------
(* CAN-to-TCP bridge firmware of FSAE-TS.                                   *)
(*   bridge : Firmware/can_wifi_transmitter/main/bridge.c  (app_main loop)  *)
(*   task   : Firmware/can_tcp_project/main/main.c  (app_main, the WiFi     *)
(*            event handler and can_receive_task)                           *)
(* The variable firmware says which of the two images runs.  rxLog and      *)
(* sendLog are history variables: every result twai_receive returned and    *)
(* every call of send(), in program order.  wire is the byte stream the     *)
(* TCP transport accepted.                                                  *)
EXTENDS Integers, Sequences, FiniteSets, TLC

VARIABLES firmware, pc, taskPc, driver, sock, tcp_socket, openFds, established,
          wifiLink, wifiEvent, gotIp, rxLog, sendLog, wire, nConnOk, connLeft

vars == <<firmware, pc, taskPc, driver, sock, tcp_socket, openFds, established,
          wifiLink, wifiEvent, gotIp, rxLog, sendLog, wire, nConnOk, connLeft>>

netVars == <<wifiLink, wifiEvent, gotIp>>
sockVars == <<sock, tcp_socket, openFds, established>>
logVars == <<rxLog, sendLog, wire>>

-----------------------------------------------------------------------------
(* Bounds of the model.                                                     *)

\* number of twai_receive calls explored
MaxRecv == 3

-----------------------------------------------------------------------------
(* Values of the environment.                                               *)

\* twai_message_t.data holds 8 bytes
TWAI_FRAME_MAX_DLC == 8

\* sizeof(tx_buf)
TxBufSize == 13

\* bytes 0xAA 0xBB then stale bytes of an earlier frame
DataAABB == <<170, 187, 17, 34, 51, 68, 85, 102>>
Data1to8 == <<1, 2, 3, 4, 5, 6, 7, 8>>

\* what twai_receive can store in message: identifier (29 bits significant),
\* data_length_code (the controller's 4-bit field, so 0..15) and data[8]
Frames ==
  { [identifier |-> 291,       data_length_code |-> 2,  data |-> DataAABB],
    [identifier |-> 305419896, data_length_code |-> 8,  data |-> Data1to8],
    [identifier |-> 536870911, data_length_code |-> 0,  data |-> DataAABB],
    [identifier |-> 1911,      data_length_code |-> 9,  data |-> Data1to8],
    [identifier |-> 2047,      data_length_code |-> 15, data |-> DataAABB] }

NoFrame == [identifier |-> 0, data_length_code |-> 0, data |-> <<>>]

\* contents of the memory next to message.data and tx_buf
GarbageBytes == {238}

\* socket() returns a descriptor >= 0 or -1
SocketResults == {-1, 0, 54}

\* esp_err_t codes twai_receive returns besides ESP_OK and ESP_ERR_TIMEOUT
BusErrorCodes == {"ESP_ERR_INVALID_STATE"}

\* send() on a connected stream socket: -1, or the bytes accepted (0..n)
SendResults(n) == {-1, n} \cup {k \in {0, n - 1} : 0 <= k /\ k < n}

-----------------------------------------------------------------------------
(* Helpers.                                                                 *)

Last(s) == s[Len(s)]

Take(s, n) == SubSeq(s, 1, n)

\* (x >> k) & 0xFF on a uint32_t
ShiftMask(x, k) == (x \div (2 ^ k)) % 256

-----------------------------------------------------------------------------
(* bridge.c: the encoder, lines 64-73.                                      *)

\* mutant: the identifier stored low byte first
Encode_LittleEndian(m) ==
  [i \in 1..TxBufSize |->
     IF i <= 4 THEN ShiftMask(m.identifier, 8 * (i - 1))
     ELSE IF i = 5 THEN m.data_length_code
     ELSE IF i - 5 <= m.data_length_code THEN m.data[i - 5]
     ELSE 0]

\* tx_buf after memset, the four identifier stores, the DLC store and the
\* memcpy, for data_length_code <= 8 (the copy stays inside tx_buf)
Encode(m) ==
  [i \in 1..TxBufSize |->
     IF i = 1 THEN ShiftMask(m.identifier, 24)
     ELSE IF i = 2 THEN ShiftMask(m.identifier, 16)
     ELSE IF i = 3 THEN ShiftMask(m.identifier, 8)
     ELSE IF i = 4 THEN ShiftMask(m.identifier, 0)
     ELSE IF i = 5 THEN m.data_length_code
     ELSE IF i - 5 <= m.data_length_code THEN m.data[i - 5]
     ELSE 0]

\* mutant: the whole buffer is sent
ToSend_Padded(m) == TxBufSize

\* int to_send = 5 + message.data_length_code
ToSend(m) == 5 + m.data_length_code

\* the highest index of tx_buf that memset (0..12), the five header stores
\* (0..4) and memcpy(&tx_buf[5], ..., data_length_code) write
HighestIndexWritten(m) ==
  IF 5 + m.data_length_code - 1 > TxBufSize - 1
  THEN 5 + m.data_length_code - 1
  ELSE TxBufSize - 1

\* memcpy with data_length_code > 8 reads past message.data and writes past
\* tx_buf; send then reads to_send bytes starting at tx_buf.  When the program
\* survives, the bytes past tx_buf are whatever memory holds there (g).
EncodeOverrun(m, g) ==
  [i \in 1..ToSend(m) |-> IF i <= TxBufSize THEN Encode(m)[i] ELSE g]

\* the bytes send() is handed: to_send bytes starting at tx_buf
TxBytes(m, g) ==
  IF m.data_length_code <= TWAI_FRAME_MAX_DLC
  THEN Take(Encode(m), ToSend(m))
  ELSE EncodeOverrun(m, g)

-----------------------------------------------------------------------------
(* The network stack.                                                       *)

Connected(fd) == fd \in openFds /\ fd \in established

\* what send(fd, buf, n) may return
SendOutcomes(fd, n) == IF Connected(fd) THEN SendResults(n) ELSE {-1}

\* the stream after send returned ret
Transmit(stream, bytes, ret) == IF ret > 0 THEN stream \o Take(bytes, ret) ELSE stream

\* printf("Forwarded CAN message ...") runs on the else branch of sent < 0
LoggedForwarded(sent) == ~(sent < 0)

\* one call of send(), recorded
SendCall(k, fd, bytes, n, ret, logged) ==
  [k |-> k, fd |-> fd, open |-> fd \in openFds, conn |-> Connected(fd),
   bytes |-> bytes, n |-> n, ret |-> ret, conns |-> nConnOk, logged |-> logged]

\* the descriptor a program variable holds and what the stack knows of it
SockState(fd, fds, est) == [fd |-> fd, open |-> fd \in fds, conn |-> fd \in est]

\* how the last connect attempt ended ("none" before the first) and the
\* socket state it left
ConnectLeft(result, fd, fds, est) == [result |-> result, state |-> SockState(fd, fds, est)]

RecvFrame(m) == [kind |-> "frame", msg |-> m, code |-> "ESP_OK"]
RecvTimeout == [kind |-> "timeout", msg |-> NoFrame, code |-> "ESP_ERR_TIMEOUT"]
RecvError(c) == [kind |-> "error", msg |-> NoFrame, code |-> c]

-----------------------------------------------------------------------------
(* bridge.c: app_main.                                                      *)

\* line 28: twai_driver_install; on failure print and return
BridgeInstall ==
  /\ firmware = "bridge" /\ pc = "install"
  /\ \E ok \in BOOLEAN :
       IF ok THEN driver' = "installed" /\ pc' = "start"
             ELSE driver' = driver /\ pc' = "returned"
  /\ UNCHANGED <<firmware, taskPc, sockVars, netVars, logVars, nConnOk, connLeft>>

\* mutant: the result of twai_start is not looked at
BridgeStart_Ignored ==
  /\ firmware = "bridge" /\ pc = "start"
  /\ \E ok \in BOOLEAN :
       /\ driver' = IF ok THEN "running" ELSE driver
       /\ pc' = "socket"
  /\ UNCHANGED <<firmware, taskPc, sockVars, netVars, logVars, nConnOk, connLeft>>

\* line 32: twai_start; on failure print and return
BridgeStart ==
  /\ firmware = "bridge" /\ pc = "start"
  /\ \E ok \in BOOLEAN :
       IF ok THEN driver' = "running" /\ pc' = "socket"
             ELSE driver' = driver /\ pc' = "returned"
  /\ UNCHANGED <<firmware, taskPc, sockVars, netVars, logVars, nConnOk, connLeft>>

\* lines 39-43: sock = socket(...); return when sock < 0
BridgeSocket ==
  /\ firmware = "bridge" /\ pc = "socket"
  /\ \E r \in SocketResults :
       /\ sock' = r
       /\ IF r < 0 THEN openFds' = openFds /\ pc' = "returned"
                   ELSE openFds' = openFds \cup {r} /\ pc' = "connect"
  /\ UNCHANGED <<firmware, taskPc, driver, tcp_socket, established, netVars,
                 logVars, nConnOk, connLeft>>

\* lines 51-56: connect(sock, ...); on failure close(sock) and return
BridgeConnect ==
  /\ firmware = "bridge" /\ pc = "connect"
  /\ \E ok \in BOOLEAN :
       IF ok
       THEN /\ established' = established \cup {sock}
            /\ openFds' = openFds
            /\ nConnOk' = nConnOk + 1
            /\ pc' = "loop"
       ELSE /\ established' = established
            /\ openFds' = openFds \ {sock}
            /\ nConnOk' = nConnOk
            /\ pc' = "returned"
  /\ connLeft' = ConnectLeft(IF pc' = "loop" THEN "connected" ELSE "refused",
                             sock, openFds', established')
  /\ UNCHANGED <<firmware, taskPc, driver, sock, tcp_socket, netVars, logVars>>

\* mutant: every frame is handed to send twice
BridgeSend_Twice(m, g, sent) ==
  /\ sendLog' = sendLog
        \o <<SendCall(Len(rxLog) + 1, sock, TxBytes(m, g), ToSend(m), sent,
                      LoggedForwarded(sent)),
             SendCall(Len(rxLog) + 1, sock, TxBytes(m, g), ToSend(m), sent,
                      LoggedForwarded(sent))>>
  /\ wire' = Transmit(Transmit(wire, TxBytes(m, g), sent), TxBytes(m, g), sent)
  /\ pc' = "loop"

\* lines 73-79: send the encoded frame; a negative result is printed, any
\* other result is printed as forwarded; the socket is left as it is
BridgeSend(m, g, sent) ==
  /\ sendLog' = Append(sendLog, SendCall(Len(rxLog) + 1, sock, TxBytes(m, g),
                                         ToSend(m), sent, LoggedForwarded(sent)))
  /\ wire' = Transmit(wire, TxBytes(m, g), sent)
  /\ pc' = "loop"

\* lines 61-79: twai_receive returned ESP_OK with message m
BridgeRecvFrame ==
  /\ firmware = "bridge" /\ pc = "loop" /\ Len(rxLog) < MaxRecv
  /\ \E m \in Frames :
       /\ rxLog' = Append(rxLog, RecvFrame(m))
       /\ IF m.data_length_code <= TWAI_FRAME_MAX_DLC
          THEN \E sent \in SendOutcomes(sock, ToSend(m)) :
                 BridgeSend(m, 0, sent)
          ELSE \/ pc' = "crashed" /\ UNCHANGED <<sendLog, wire>>
               \/ \E g \in GarbageBytes, sent \in SendOutcomes(sock, ToSend(m)) :
                    BridgeSend(m, g, sent)
  /\ UNCHANGED <<firmware, taskPc, driver, sockVars, netVars, nConnOk, connLeft>>

\* mutant: an idle second is taken for a dead link and the socket closed
BridgeRecvTimeout_Close ==
  /\ firmware = "bridge" /\ pc = "loop" /\ Len(rxLog) < MaxRecv
  /\ rxLog' = Append(rxLog, RecvTimeout)
  /\ openFds' = openFds \ {sock}
  /\ UNCHANGED <<firmware, pc, taskPc, driver, sock, tcp_socket, established,
                 netVars, sendLog, wire, nConnOk, connLeft>>

\* lines 80-81: twai_receive returned ESP_ERR_TIMEOUT
BridgeRecvTimeout ==
  /\ firmware = "bridge" /\ pc = "loop" /\ Len(rxLog) < MaxRecv
  /\ rxLog' = Append(rxLog, RecvTimeout)
  /\ UNCHANGED <<firmware, pc, taskPc, driver, sockVars, netVars, sendLog, wire,
                 nConnOk, connLeft>>

\* mutant: a bus error ends app_main
BridgeRecvError_Return ==
  /\ firmware = "bridge" /\ pc = "loop" /\ Len(rxLog) < MaxRecv
  /\ \E c \in BusErrorCodes : rxLog' = Append(rxLog, RecvError(c))
  /\ pc' = "returned"
  /\ UNCHANGED <<firmware, taskPc, driver, sockVars, netVars, sendLog, wire,
                 nConnOk, connLeft>>

\* lines 82-84: twai_receive returned another error code
BridgeRecvError ==
  /\ firmware = "bridge" /\ pc = "loop" /\ Len(rxLog) < MaxRecv
  /\ \E c \in BusErrorCodes : rxLog' = Append(rxLog, RecvError(c))
  /\ UNCHANGED <<firmware, pc, taskPc, driver, sockVars, netVars, sendLog, wire,
                 nConnOk, connLeft>>

NextBridge ==
  \/ BridgeInstall
  \/ BridgeStart
  \/ BridgeSocket
  \/ BridgeConnect
  \/ BridgeRecvFrame
  \/ BridgeRecvTimeout
  \/ BridgeRecvError

-----------------------------------------------------------------------------
(* main.c: WiFi bring-up, connect_tcp, can_init, app_main, can_receive_task. *)

\* lines 58-83: wifi_init registers wifi_event_handler and starts the driver,
\* which posts WIFI_EVENT_STA_START; a failed ESP_ERROR_CHECK aborts
TaskWifiInit ==
  /\ firmware = "task" /\ pc = "wifi_init"
  /\ \E ok \in BOOLEAN :
       IF ok THEN wifiEvent' = "STA_START" /\ pc' = "delay"
             ELSE wifiEvent' = wifiEvent /\ pc' = "aborted"
  /\ UNCHANGED <<firmware, taskPc, driver, sockVars, wifiLink, gotIp, logVars,
                 nConnOk, connLeft>>

\* lines 40-55: wifi_event_handler, run by the event loop task
WifiEventHandler ==
  /\ firmware = "task" /\ wifiEvent # "none"
  /\ IF wifiEvent = "STA_START"
     THEN wifiLink' = "associating" /\ gotIp' = gotIp
     ELSE IF wifiEvent = "STA_DISCONNECTED"
     THEN wifiLink' = "associating" /\ gotIp' = FALSE
     ELSE wifiLink' = wifiLink /\ gotIp' = TRUE
  /\ wifiEvent' = "none"
  /\ UNCHANGED <<firmware, pc, taskPc, driver, sockVars, logVars, nConnOk, connLeft>>

\* the WiFi driver started at line 82: an association attempt ends with an
\* address (IP_EVENT_STA_GOT_IP) or fails, and a link that is up can drop
\* (WIFI_EVENT_STA_DISCONNECTED)
WifiDriver ==
  /\ firmware = "task" /\ wifiEvent = "none" /\ pc # "aborted"
  /\ \/ wifiLink = "associating" /\ wifiLink' = "up" /\ wifiEvent' = "GOT_IP"
     \/ wifiLink \in {"associating", "up"}
          /\ wifiLink' = "down" /\ wifiEvent' = "STA_DISCONNECTED"
  /\ UNCHANGED <<firmware, pc, taskPc, driver, sockVars, gotIp, logVars, nConnOk,
                 connLeft>>

\* mutant: the receive task is created before connect_tcp is called
TaskDelay_CreatesTask ==
  /\ firmware = "task" /\ pc = "delay"
  /\ pc' = "connect_tcp"
  /\ taskPc' = "loop"
  /\ UNCHANGED <<firmware, driver, sockVars, netVars, logVars, nConnOk, connLeft>>

\* line 147: vTaskDelay(5000 ms) returns, whatever the link has done
TaskDelay ==
  /\ firmware = "task" /\ pc = "delay"
  /\ pc' = "connect_tcp"
  /\ UNCHANGED <<firmware, taskPc, driver, sockVars, netVars, logVars, nConnOk,
                 connLeft>>

\* mutant: after a refused connect the closed descriptor stays in tcp_socket
ConnectTcp_KeepsHandle ==
  /\ firmware = "task" /\ pc = "connect_tcp"
  /\ \E r \in SocketResults :
       IF r < 0
       THEN /\ tcp_socket' = r
            /\ connLeft' = ConnectLeft("nosocket", r, openFds, established)
            /\ UNCHANGED <<openFds, established, nConnOk>>
       ELSE \E ok \in BOOLEAN :
              IF ok
              THEN /\ tcp_socket' = r
                   /\ openFds' = openFds \cup {r}
                   /\ established' = established \cup {r}
                   /\ nConnOk' = nConnOk + 1
                   /\ connLeft' = ConnectLeft("connected", r, openFds', established')
              ELSE /\ tcp_socket' = r
                   /\ openFds' = openFds \ {r}
                   /\ connLeft' = ConnectLeft("refused", r, openFds', established)
                   /\ UNCHANGED <<established, nConnOk>>
  /\ pc' = "can_init"
  /\ UNCHANGED <<firmware, taskPc, driver, sock, netVars, logVars>>

\* lines 86-109: connect_tcp, called once from app_main (line 148)
ConnectTcp ==
  /\ firmware = "task" /\ pc = "connect_tcp"
  /\ \E r \in SocketResults :
       IF r < 0
       THEN /\ tcp_socket' = r
            /\ connLeft' = ConnectLeft("nosocket", r, openFds, established)
            /\ UNCHANGED <<openFds, established, nConnOk>>
       ELSE \E ok \in BOOLEAN :
              IF ok
              THEN /\ tcp_socket' = r
                   /\ openFds' = openFds \cup {r}
                   /\ established' = established \cup {r}
                   /\ nConnOk' = nConnOk + 1
                   /\ connLeft' = ConnectLeft("connected", r, openFds', established')
              ELSE /\ tcp_socket' = -1
                   /\ openFds' = openFds \ {r}
                   /\ connLeft' = ConnectLeft("refused", -1, openFds', established)
                   /\ UNCHANGED <<established, nConnOk>>
  /\ pc' = "can_init"
  /\ UNCHANGED <<firmware, taskPc, driver, sock, netVars, logVars>>

\* lines 112-120: can_init; a failed ESP_ERROR_CHECK aborts
CanInit ==
  /\ firmware = "task" /\ pc = "can_init"
  /\ \E installed \in BOOLEAN, started \in BOOLEAN :
       IF ~installed THEN driver' = driver /\ pc' = "aborted"
       ELSE IF ~started THEN driver' = "installed" /\ pc' = "aborted"
       ELSE driver' = "running" /\ pc' = "create_task"
  /\ UNCHANGED <<firmware, taskPc, sockVars, netVars, logVars, nConnOk, connLeft>>

\* line 152: xTaskCreate(can_receive_task); app_main returns
TaskCreate ==
  /\ firmware = "task" /\ pc = "create_task"
  /\ taskPc' = "loop" /\ pc' = "done"
  /\ UNCHANGED <<firmware, driver, sockVars, netVars, logVars, nConnOk, connLeft>>

\* line 136: the bytes send() is handed: data_length_code bytes starting at
\* message.data; past the 8 bytes of data it reads whatever memory holds (g)
TaskTxBytes(m, g) ==
  [i \in 1..m.data_length_code |->
     IF i <= TWAI_FRAME_MAX_DLC THEN m.data[i] ELSE g]

\* line 136: send(tcp_socket, message.data, message.data_length_code, 0);
\* the result is not looked at
TaskSend(m, g, sent) ==
  /\ sendLog' = Append(sendLog, SendCall(Len(rxLog) + 1, tcp_socket,
                                         TaskTxBytes(m, g), m.data_length_code,
                                         sent, FALSE))
  /\ wire' = Transmit(wire, TaskTxBytes(m, g), sent)
  /\ taskPc' = "loop"

\* lines 128-137: twai_receive returned ESP_OK with message m
TaskRecvFrame ==
  /\ firmware = "task" /\ taskPc = "loop" /\ Len(rxLog) < MaxRecv
  /\ \E m \in Frames :
       /\ rxLog' = Append(rxLog, RecvFrame(m))
       /\ IF tcp_socket > 0
          THEN IF m.data_length_code <= TWAI_FRAME_MAX_DLC
               THEN \E sent \in SendOutcomes(tcp_socket, m.data_length_code) :
                      TaskSend(m, 0, sent)
               ELSE \/ taskPc' = "crashed" /\ UNCHANGED <<sendLog, wire>>
                    \/ \E g \in GarbageBytes,
                          sent \in SendOutcomes(tcp_socket, m.data_length_code) :
                         TaskSend(m, g, sent)
          ELSE UNCHANGED <<taskPc, sendLog, wire>>
  /\ UNCHANGED <<firmware, pc, driver, sockVars, netVars, nConnOk, connLeft>>

\* line 128: twai_receive returned anything but ESP_OK; the loop goes round
TaskRecvNotOk ==
  /\ firmware = "task" /\ taskPc = "loop" /\ Len(rxLog) < MaxRecv
  /\ \E r \in {RecvTimeout} \cup {RecvError(c) : c \in BusErrorCodes} :
       rxLog' = Append(rxLog, r)
  /\ UNCHANGED <<firmware, pc, taskPc, driver, sockVars, netVars, sendLog, wire,
                 nConnOk, connLeft>>

NextTask ==
  \/ TaskWifiInit
  \/ WifiEventHandler
  \/ WifiDriver
  \/ TaskDelay
  \/ ConnectTcp
  \/ CanInit
  \/ TaskCreate
  \/ TaskRecvFrame
  \/ TaskRecvNotOk

-----------------------------------------------------------------------------
(* Specifications.                                                          *)

InitCommon ==
  /\ taskPc = "none"
  /\ driver = "uninstalled"
  /\ sock = -1
  /\ tcp_socket = -1
  /\ openFds = {}
  /\ established = {}
  /\ wifiLink = "down"
  /\ wifiEvent = "none"
  /\ gotIp = FALSE
  /\ rxLog = <<>>
  /\ sendLog = <<>>
  /\ wire = <<>>
  /\ nConnOk = 0
  /\ connLeft = ConnectLeft("none", -1, {}, {})

InitBridge == firmware = "bridge" /\ pc = "install" /\ InitCommon

InitTask == firmware = "task" /\ pc = "wifi_init" /\ InitCommon

Init == InitBridge \/ InitTask

Next == NextBridge \/ NextTask

\* either firmware image
Spec == Init /\ [][Next]_vars

\* bridge.c alone
SpecBridge == InitBridge /\ [][NextBridge]_vars

\* main.c alone
SpecTask == InitTask /\ [][NextTask]_vars

-----------------------------------------------------------------------------
(* Properties.                                                              *)

\* the descriptor variable of the running firmware (sock / tcp_socket)
ActiveSock == IF firmware = "bridge" THEN sock ELSE tcp_socket

\* where the receive loop of the running firmware stands
LoopPc == IF firmware = "bridge" THEN pc ELSE taskPc

\* the message received by the k-th call of twai_receive
FrameOf(call) == rxLog[call.k].msg

SendIndices == 1..Len(sendLog)

\* C1: when a send on a connected socket returns an error, the connection is
\* Disconnected and the socket closed before the next loop iteration begins:
\* the bridge never stays Connected with a socket whose last send failed.
C1_SendErrorDisconnects ==
  (/\ sendLog # <<>>
   /\ Last(sendLog).conn
   /\ Last(sendLog).ret < 0
   /\ nConnOk = Last(sendLog).conns)
    => /\ ~Connected(Last(sendLog).fd)
       /\ Last(sendLog).fd \notin openFds

\* C2: when the send of frame k fails, frame k is never handed to send a
\* second time, and no later frame is handed to send until a connect attempt
\* has succeeded after the failure.
C2_NoRetryNoSendBeforeReconnect ==
  \A i \in SendIndices, j \in SendIndices :
    (i < j /\ sendLog[i].ret < 0)
      => /\ sendLog[j].k # sendLog[i].k
         /\ sendLog[j].conns > sendLog[i].conns

\* C3: a TCP connect failure is never fatal: while the connection is not
\* Connected after a failed connect, the program is at a (re)connect attempt;
\* it has neither ended nor gone on to the receive loop without a connection.
C3_ConnectFailureRetried ==
  (connLeft.result = "refused" /\ ~Connected(ActiveSock))
    => pc \in {"socket", "connect", "connect_tcp"}

\* C4: a frame whose data length code exceeds 8 is dropped before encoding:
\* no send is issued for it, so none of its bytes reach the transport.
C4_OversizeFrameDropped ==
  \A i \in SendIndices : FrameOf(sendLog[i]).data_length_code <= TWAI_FRAME_MAX_DLC

\* the frames twai_receive returned, in order
RECURSIVE FramesReceived(_)
FramesReceived(log) ==
  IF log = <<>> THEN <<>>
  ELSE IF log[1].kind = "frame"
       THEN <<log[1].msg>> \o FramesReceived(Tail(log))
       ELSE FramesReceived(Tail(log))

\* a frame as a receiver knows it: only the first data_length_code bytes count
Meaningful(f) ==
  [identifier |-> f.identifier, data_length_code |-> f.data_length_code,
   data |-> Take(f.data, f.data_length_code)]

\* big-endian value of four bytes; the model checker's integers end at
\* 2^31 - 1, and a value past that (no CAN identifier: they have 29 bits)
\* is given as -1
BigEndian32(b0, b1, b2, b3) ==
  IF b0 < 128 THEN b0 * 16777216 + b1 * 65536 + b2 * 256 + b3 ELSE -1

IsByte(b) == b \in 0..255

\* C5: for a frame with length L in 0..8 the bytes handed to send are exactly
\* 5+L bytes: the identifier big-endian in bytes 0..3, L in byte 4, then the
\* first L payload bytes with no padding; identifier 0x123, L = 2, payload
\* AA BB gives 00 00 01 23 02 AA BB.
C5_WireLayout ==
  \A i \in SendIndices :
    LET f == FrameOf(sendLog[i])
        b == sendLog[i].bytes
        L == f.data_length_code
    IN  L \in 0..8 =>
          /\ sendLog[i].n = 5 + L
          /\ Len(b) = 5 + L
          /\ \A j \in 1..4 : IsByte(b[j])
          /\ BigEndian32(b[1], b[2], b[3], b[4]) = f.identifier
          /\ b[5] = L
          /\ \A j \in 1..L : b[5 + j] = f.data[j]
          /\ (f.identifier = 291 /\ L = 2 /\ f.data[1] = 170 /\ f.data[2] = 187)
               => b = <<0, 0, 1, 35, 2, 170, 187>>

\* a frame of length 2 and one of length 8 have been handed to send
C5_Witness ==
  /\ \E i \in SendIndices : sendLog[i].bytes = <<0, 0, 1, 35, 2, 170, 187>>
  /\ \E i \in SendIndices : FrameOf(sendLog[i]).data_length_code = 8
                              /\ FrameOf(sendLog[i]).identifier = 305419896

\* the inverse of the wire format: 4 bytes big-endian identifier, 1 byte
\* length, then length payload bytes
Decode(b) ==
  [identifier |-> BigEndian32(b[1], b[2], b[3], b[4]),
   data_length_code |-> b[5],
   data |-> SubSeq(b, 6, 5 + b[5])]

\* C6: for a frame with length in 0..8, decoding the encoder's output with
\* the inverse of the wire format yields the same identifier, the same length
\* and the same first length payload bytes.
C6_RoundTrip ==
  \A i \in SendIndices :
    LET f == FrameOf(sendLog[i])
    IN  f.data_length_code \in 0..8
          => /\ Len(sendLog[i].bytes) >= 5
             /\ Decode(sendLog[i].bytes) = Meaningful(f)

\* frames of length 0, 2 and 8 have each been encoded
C6_Witness ==
  \A L \in {0, 2, 8} :
    \E i \in SendIndices : FrameOf(sendLog[i]).data_length_code = L

\* C7: every message written to the transport starts with the 5-byte header
\* (4-byte identifier, 1-byte length); no forwarding path writes a
\* payload-only message.
C7_HeaderOnEveryMessage ==
  \A i \in SendIndices :
    LET f == FrameOf(sendLog[i])
        b == sendLog[i].bytes
    IN  sendLog[i].ret > 0 =>
          /\ Len(b) >= 5
          /\ BigEndian32(b[1], b[2], b[3], b[4]) = f.identifier
          /\ b[5] = f.data_length_code

\* a receiver of the stream: read 5 bytes, then bytes[4] more, and again;
\* a stream that ends inside a message decodes to the messages before it
\* followed by "truncated"
RECURSIVE DecodeStream(_)
DecodeStream(stream) ==
  IF stream = <<>> THEN <<>>
  ELSE IF Len(stream) < 5 \/ Len(stream) < 5 + stream[5] THEN <<"truncated">>
  ELSE <<Decode(Take(stream, 5 + stream[5]))>>
         \o DecodeStream(SubSeq(stream, 6 + stream[5], Len(stream)))

AllFramesValid ==
  \A i \in 1..Len(rxLog) :
    rxLog[i].kind = "frame" => rxLog[i].msg.data_length_code <= TWAI_FRAME_MAX_DLC

AllSendsFull == \A i \in SendIndices : sendLog[i].ret = sendLog[i].n

\* C8: with N valid frames received on a connected socket and every send
\* accepted in full, the stream on the transport is the N wire messages in
\* the order the frames came: N messages, none duplicated, left out,
\* reordered or interleaved.
C8_StreamIsFramesInOrder ==
  (AllFramesValid /\ AllSendsFull)
    => LET frames == FramesReceived(rxLog)
       IN  /\ Len(sendLog) = Len(frames)
           /\ \A i \in SendIndices : sendLog[i].conn
           /\ DecodeStream(wire) = [i \in 1..Len(frames) |-> Meaningful(frames[i])]

\* three valid frames, two of them different, all sent in full
C8_Witness ==
  /\ AllFramesValid /\ AllSendsFull
  /\ Len(FramesReceived(rxLog)) = 3
  /\ FramesReceived(rxLog)[1].identifier = 305419896
  /\ FramesReceived(rxLog)[2].identifier = 291
  /\ Len(wire) = 13 + 7 + 5

\* C9: while every receive call has returned Timeout, send has not been
\* called and the connection state and the socket descriptor are as the
\* last connect attempt left them, however many iterations ran.
C9_TimeoutsLeaveConnectionAlone ==
  (rxLog # <<>> /\ \A i \in 1..Len(rxLog) : rxLog[i].kind = "timeout")
    => /\ sendLog = <<>>
       /\ wire = <<>>
       /\ SockState(ActiveSock, openFds, established) = connLeft.state

\* the loop went round on timeouts alone, as often as the model allows,
\* with the socket connected
C9_Witness ==
  /\ Len(rxLog) = MaxRecv
  /\ \A i \in 1..Len(rxLog) : rxLog[i].kind = "timeout"
  /\ Connected(ActiveSock)

\* C10: a receive call that returns a bus error does not stop the loop: no
\* send is issued in that iteration, the connection state and the socket
\* are unchanged, and the loop stands at its receive call again.
C10_BusErrorSkipsIteration ==
  [][(Len(rxLog') = Len(rxLog) + 1 /\ rxLog'[Len(rxLog')].kind = "error")
       => /\ UNCHANGED <<sendLog, wire, sock, tcp_socket, openFds, established>>
          /\ LoopPc' = "loop"]_vars

\* a bus error was followed by a frame that was handed to send
C10_Witness ==
  \E i \in 1..Len(rxLog) :
    /\ rxLog[i].kind = "error"
    /\ \E j \in SendIndices : sendLog[j].k > i

\* app_main of bridge.c has ended
BridgeEnded == firmware = "bridge" /\ pc = "returned"

\* C11: on every path by which the bridge's main function ends, early
\* returns on setup failure included, every socket that was opened has been
\* closed and the bus driver, if it was installed, has been uninstalled.
C11_ResourcesReleasedAtExit ==
  BridgeEnded => (openFds = {} /\ driver = "uninstalled")

\* C12: when bus driver installation or bus start fails at boot, the
\* receive/forward loop is never entered: receive and send are never called.
C12_NoLoopWithoutBus ==
  driver # "running"
    => /\ LoopPc # "loop"
       /\ rxLog = <<>>
       /\ sendLog = <<>>

\* twai_start failed after a successful installation and the program stopped
C12_Witness ==
  /\ driver = "installed"
  /\ pc \in {"returned", "aborted"}

\* a step that assigns tcp_socket or opens or closes a descriptor
WritesHandle == tcp_socket' # tcp_socket \/ openFds' # openFds

\* a step of can_receive_task (its twai_receive returned; a frame makes it
\* read tcp_socket)
ReceiveTaskStep == firmware = "task" /\ rxLog' # rxLog

\* C13: the socket handle has a single writer and a single closer: it is
\* assigned and closed only inside connect_tcp, the receive task only reads
\* it, and the receive task never runs while connect_tcp is writing it (the
\* task does not exist until connect_tcp has returned); the WiFi event
\* handler neither reads nor writes it.
C13_SingleWriterOfHandle ==
  [][/\ WritesHandle => (pc = "connect_tcp" /\ pc' = "can_init"
                          /\ taskPc = "none" /\ taskPc' = "none")
     /\ ReceiveTaskStep => (pc \notin {"wifi_init", "delay", "connect_tcp"}
                             /\ ~WritesHandle)]_vars

\* the receive task has read the handle connect_tcp assigned and sent on it
C13_Witness ==
  /\ firmware = "task" /\ taskPc = "loop"
  /\ sendLog # <<>>
  /\ Last(sendLog).fd = tcp_socket

\* C14: a send counts as successful only when the transport accepted all
\* 5+length bytes: a short write is treated as a send failure, and a frame
\* is logged as forwarded only when the whole message was written.
C14_ForwardedMeansAllWritten ==
  \A i \in SendIndices : sendLog[i].logged => sendLog[i].ret = sendLog[i].n

\* the send calls made for the r-th receive call
SendsFor(r) == {i \in SendIndices : sendLog[i].k = r}

\* the payload bytes a send call carries: all of them in main.c, those after
\* the 5-byte header in bridge.c
PayloadSent(call) ==
  IF firmware = "bridge" THEN SubSeq(call.bytes, 6, Len(call.bytes)) ELSE call.bytes

\* C15: the loop alternates receive and send with at most one frame in
\* flight: between two consecutive receive calls there is at most one send
\* call, it carries the frame the earlier receive returned, and while the
\* connection is Connected every valid received frame gets exactly one send
\* attempt before the next receive.
C15_OneSendPerReceive ==
  /\ \A r \in 1..Len(rxLog) : Cardinality(SendsFor(r)) <= 1
  /\ \A i \in SendIndices, j \in SendIndices : i < j => sendLog[i].k < sendLog[j].k
  /\ \A i \in SendIndices :
       /\ rxLog[sendLog[i].k].kind = "frame"
       /\ FrameOf(sendLog[i]).data_length_code <= TWAI_FRAME_MAX_DLC
            => PayloadSent(sendLog[i]) = Meaningful(FrameOf(sendLog[i])).data
  /\ Connected(ActiveSock)
       => \A r \in 1..Len(rxLog) :
            (rxLog[r].kind = "frame"
             /\ rxLog[r].msg.data_length_code <= TWAI_FRAME_MAX_DLC)
              => Cardinality(SendsFor(r)) = 1

\* C16: the first TCP connect attempt is made only after the got-IP event
\* has been handled: connect_tcp never runs before it, in any interleaving
\* of the startup task and the WiFi event handler.
C16_ConnectAfterGotIp ==
  [][(pc = "connect_tcp" /\ pc' # pc) => gotIp]_vars

\* C17: for every frame the bus driver can return, whatever its data length
\* code, the encoder writes only inside the 13-byte tx_buf (highest index
\* written <= 12) and the byte count passed to send never exceeds 13.
C17_EncoderStaysInBuffer ==
  firmware = "bridge"
    => /\ \A r \in 1..Len(rxLog) :
            rxLog[r].kind = "frame" => HighestIndexWritten(rxLog[r].msg) <= 12
       /\ \A i \in SendIndices : sendLog[i].n <= 13

\* the valid frames among the first r results of twai_receive
ValidFrameAt(r) ==
  /\ rxLog[r].kind = "frame"
  /\ rxLog[r].msg.data_length_code <= TWAI_FRAME_MAX_DLC

\* C18: in the task-based firmware a received frame is passed to send if
\* and only if the startup connect succeeded: for every descriptor socket()
\* can return (any value >= 0, 0 included) a successful connect_tcp leads to
\* every frame received afterwards being sent, a failed one to none.
C18_SentIffConnected ==
  firmware = "task"
    => \A r \in 1..Len(rxLog) :
         ValidFrameAt(r) => (SendsFor(r) # {} <=> connLeft.result = "connected")

\* C19: send is never called on a descriptor that has been closed or was
\* never successfully connected: after a close of the descriptor (the connect
\* failure path) no later send uses it.
C19_SendOnlyOnLiveSocket ==
  \A i \in SendIndices :
    /\ sendLog[i].fd >= 0
    /\ sendLog[i].open
    /\ sendLog[i].conn

\* connect was refused and the descriptor closed; valid frames came in
\* afterwards and no send was made
C19_Witness ==
  /\ connLeft.result = "refused"
  /\ Len(rxLog) >= 2
  /\ \A r \in 1..Len(rxLog) : ValidFrameAt(r)
  /\ sendLog = <<>>

=============================================================================
